---- MODULE Spec2Model ----
(***************************************************************************)
(* Model of the override store of the weatherio backend: the lazy, shared  *)
(* Mongo connection guard (ensureDb) and the three data-access helpers     *)
(* getLatestOverride, addOverride and removeOverride.  Every await in the  *)
(* source is a point where another request may run, so each helper is one  *)
(* action per stretch of code between two awaits.                          *)
(***************************************************************************)
EXTENDS Integers, Sequences, FiniteSets, TLC

(* ---- bounds of the model ---- *)
MaxRecords == 2
MaxRecordsSeq == 4
MaxAttempts == 2
MaxRecordsConn == 1
MaxRecordsStore == 3

\* the requests in progress at the same time
Procs == {"r1", "r2"}

(* ---- inputs ---- *)
Lats == {"12.0"}
Lons == {"77.0"}
Dates == {"2024-01-01"}
Emails == {"a@x.com", "b@x.com"}
\* the payload is opaque to the helpers: it is copied into the record once
Values == {10}

Keys == [lat : Lats, lon : Lons, date : Dates, updatedBy : Emails]

null == [isNull |-> TRUE]
NoPromise == 0

VARIABLES
    MONGO_URI,          \* TRUE iff process.env.MONGO_URI is set
    readyState,         \* mongoose.connection.readyState: 0, 1 or 2
    connectingPromise,  \* NoPromise, or the number of the promise held by the guard
    promises,           \* promises[i]: state of the promise made by the i-th attempt
    overrides,          \* the Override collection, in insertion order
    now,                \* the clock read by new Date(), one tick per insert
    pc,                 \* per request: where its helper is suspended
    op,                 \* per request: the helper it runs
    args,               \* per request: the helper's arguments
    awaited,            \* per request: the promise its ensureDb call returned
    newVersion,         \* per request: addOverride's local newVersion
    result,             \* per request: what the helper returned or threw
    lastWrite,          \* history: per key, the last write helper that completed
    solo                \* history: the request whose add has run its store calls
                        \* so far with no other request's store call in between

vars == <<MONGO_URI, readyState, connectingPromise, promises, overrides, now,
          pc, op, args, awaited, newVersion, result, lastWrite, solo>>

(* ---- the document store (mongoose queries on the Override model) ---- *)

\* A document matches an equality filter when it agrees on every filter field.
Matches(doc, filter) == \A f \in DOMAIN filter : doc[f] = filter[f]

Matching(coll, filter) == {i \in 1..Len(coll) : Matches(coll[i], filter)}

\* $set: the patch's fields replace the document's.
Patch(doc, patch) ==
    [f \in DOMAIN doc |-> IF f \in DOMAIN patch THEN patch[f] ELSE doc[f]]

\* findOne(filter).sort({version: -1}): what the query may return.  Documents
\* that tie on version come back in an order the store does not fix.
FindOneSortVersionDesc(coll, filter) ==
    LET m == Matching(coll, filter)
        top == {i \in m : \A j \in m : coll[j].version <= coll[i].version}
    IN  IF m = {} THEN {null} ELSE {coll[i] : i \in top}

\* variant: updateOne, only the first match is patched
UpdateOne(coll, filter, patch) ==
    [i \in 1..Len(coll) |->
        IF Matches(coll[i], filter) /\ \A j \in 1..(i - 1) : ~Matches(coll[j], filter)
        THEN Patch(coll[i], patch) ELSE coll[i]]

\* variant: the bulk update is held back until the insert has succeeded
UpdateNone(coll, filter, patch) == coll

\* updateMany(filter, {$set: patch})
UpdateMany(coll, filter, patch) ==
    [i \in 1..Len(coll) |->
        IF Matches(coll[i], filter) THEN Patch(coll[i], patch) ELSE coll[i]]

\* variant: findOneAndDelete, the matched document is taken out
FindOneAndDelete(coll, i, patch) ==
    [j \in 1..(Len(coll) - 1) |-> IF j < i THEN coll[j] ELSE coll[j + 1]]

\* variant: the find and the patch are two steps, the patch not yet applied
FindOneNoUpdate(coll, i, patch) == coll

\* findOneAndUpdate(filter, {$set: patch}) applied to document i
FindOneAndUpdate(coll, i, patch) ==
    [coll EXCEPT ![i] = Patch(coll[i], patch)]

\* variant: without {new: true} the document comes back as it was found
ReturnOriginal(before, patch) == before

\* {new: true}: findOneAndUpdate returns the document after the patch
ReturnNew(before, patch) == Patch(before, patch)

\* the filters the helpers build
\* variant: the owner is left out of the filter
KeyFilterNoOwner(a) == [lat |-> a.lat, lon |-> a.lon, date |-> a.date]

\* variant: only the active documents of the key are looked at
KeyFilterActiveOnly(a) ==
    [lat |-> a.lat, lon |-> a.lon, date |-> a.date, active |-> TRUE,
     updatedBy |-> a.userEmail]

KeyFilter(a) ==
    [lat |-> a.lat, lon |-> a.lon, date |-> a.date, updatedBy |-> a.userEmail]

\* variant: the filter does not ask for active documents
AnyKeyFilter(a) ==
    [lat |-> a.lat, lon |-> a.lon, date |-> a.date, updatedBy |-> a.userEmail]

ActiveKeyFilter(a) ==
    [lat |-> a.lat, lon |-> a.lon, date |-> a.date, active |-> TRUE,
     updatedBy |-> a.userEmail]

\* variant: the patch sets the flag instead of clearing it
Activate == [active |-> TRUE]

\* { $set: { active: false } }
Deactivate == [active |-> FALSE]

\* variant: the increment is left out
NextVersionNoIncrement(latest) == IF latest = null THEN 1 ELSE latest.version

\* const newVersion = latest ? latest.version + 1 : 1
NextVersion(latest) == IF latest = null THEN 1 ELSE latest.version + 1

\* new Override({...}) of addOverride
NewOverride(a, version, id, time) ==
    [_id |-> id, lat |-> a.lat, lon |-> a.lon, date |-> a.date,
     newValues |-> a.values, updatedAt |-> time, updatedBy |-> a.userEmail,
     version |-> version, active |-> TRUE]

(* ---- errors ---- *)
UriError == [error |-> "MONGO_URI not set", attempt |-> NoPromise]
ConnectError(i) == [error |-> "connect failed", attempt |-> i]
SaveError == [error |-> "save failed", attempt |-> NoPromise]
ConflictError == [error |-> "duplicate key", attempt |-> NoPromise]
IsError(r) == "error" \in DOMAIN r
\* the errors `await ensureDb()` throws
EnsureDbThrew(r) == IsError(r) /\ r # SaveError /\ r # ConflictError

(* ---- requests ---- *)
NoArgs == [lat |-> "", lon |-> "", date |-> "", values |-> 0, userEmail |-> ""]

Init ==
    /\ MONGO_URI \in BOOLEAN
    /\ readyState = 0
    /\ connectingPromise = NoPromise
    /\ promises = << >>
    /\ overrides = << >>
    /\ now = 0
    /\ pc = [p \in Procs |-> "idle"]
    /\ op = [p \in Procs |-> "none"]
    /\ args = [p \in Procs |-> NoArgs]
    /\ awaited = [p \in Procs |-> NoPromise]
    /\ newVersion = [p \in Procs |-> 0]
    /\ result = [p \in Procs |-> null]
    /\ lastWrite = [k \in Keys |-> "none"]
    /\ solo = "none"

\* the first store call of each helper
FirstQuery(o) ==
    CASE o = "getLatest" -> "findOneActive"
      [] o = "add" -> "findOne"
      [] o = "remove" -> "findOneAndUpdate"

\* variant: the await is missing, the helper goes on to its store call
NotSuspended(o) == FirstQuery(o)

\* `await ensureDb()`: helper o is suspended until the call's promise settles
Suspended(o) == "ensureDb"

\* variant: the guard is not looked at, every caller connects
GuardIgnored == TRUE

\* if (!connectingPromise)
GuardIsEmpty == connectingPromise = NoPromise

\* The synchronous body of ensureDb, run by request p inside `await ensureDb()`.
EnsureDb(p) ==
    IF ~MONGO_URI
    THEN /\ pc' = [pc EXCEPT ![p] = "done"]
         /\ result' = [result EXCEPT ![p] = UriError]
         /\ UNCHANGED <<readyState, connectingPromise, promises, awaited>>
    ELSE IF readyState = 1
    THEN /\ pc' = [pc EXCEPT ![p] = Suspended(op'[p])]
         /\ awaited' = [awaited EXCEPT ![p] = NoPromise]
         /\ UNCHANGED <<readyState, connectingPromise, promises, result>>
    ELSE IF GuardIsEmpty
    THEN /\ Len(promises) < MaxAttempts
         /\ promises' = Append(promises, "pending")
         /\ connectingPromise' = Len(promises) + 1
         /\ readyState' = 2
         /\ pc' = [pc EXCEPT ![p] = Suspended(op'[p])]
         /\ awaited' = [awaited EXCEPT ![p] = Len(promises) + 1]
         /\ UNCHANGED result
    ELSE /\ pc' = [pc EXCEPT ![p] = Suspended(op'[p])]
         /\ awaited' = [awaited EXCEPT ![p] = connectingPromise]
         /\ UNCHANGED <<readyState, connectingPromise, promises, result>>

\* the (lat, lon, date, owner) key a request works on
KeyOf(p) ==
    [lat |-> args[p].lat, lon |-> args[p].lon, date |-> args[p].date,
     updatedBy |-> args[p].userEmail]

\* what solo becomes when request p makes a store call other than add's first
StillSolo(p) == IF solo = p THEN p ELSE "none"

\* what lastWrite records for key k when an add's save() throws
FailedAdd(k) ==
    IF lastWrite[k] = "add" THEN "failed add after add" ELSE "failed add"

\* adds that have been called and have not inserted their record yet
AddsInFlight == Cardinality({p \in Procs : op[p] = "add" /\ pc[p] # "done"})

\* room for one more add within the bound n on the collection's size
CanAdd(n) == Len(overrides) + AddsInFlight < n

\* no request is inside a helper
Quiet == \A p \in Procs : pc[p] = "idle"

(* ---- calls: the helper runs up to its first await ---- *)
getLatestOverride(p) ==
    /\ pc[p] = "idle"
    /\ \E lat \in Lats, lon \in Lons, date \in Dates, userEmail \in Emails :
        args' = [args EXCEPT ![p] = [lat |-> lat, lon |-> lon, date |-> date,
                                     values |-> 0, userEmail |-> userEmail]]
    /\ op' = [op EXCEPT ![p] = "getLatest"]
    /\ EnsureDb(p)
    /\ UNCHANGED <<MONGO_URI, overrides, now, newVersion, lastWrite, solo>>

addOverride(p) ==
    /\ pc[p] = "idle"
    /\ \E lat \in Lats, lon \in Lons, date \in Dates, userEmail \in Emails,
          values \in Values :
        args' = [args EXCEPT ![p] = [lat |-> lat, lon |-> lon, date |-> date,
                                     values |-> values, userEmail |-> userEmail]]
    /\ op' = [op EXCEPT ![p] = "add"]
    /\ EnsureDb(p)
    /\ UNCHANGED <<MONGO_URI, overrides, now, newVersion, lastWrite, solo>>

removeOverride(p) ==
    /\ pc[p] = "idle"
    /\ \E lat \in Lats, lon \in Lons, date \in Dates, userEmail \in Emails :
        args' = [args EXCEPT ![p] = [lat |-> lat, lon |-> lon, date |-> date,
                                     values |-> 0, userEmail |-> userEmail]]
    /\ op' = [op EXCEPT ![p] = "remove"]
    /\ EnsureDb(p)
    /\ UNCHANGED <<MONGO_URI, overrides, now, newVersion, lastWrite, solo>>

(* ---- the connection attempt made by mongoose.connect ---- *)
\* the attempt in progress, if any
Pending == {i \in 1..Len(promises) : promises[i] = "pending"}

\* variant: the guard is emptied when the attempt succeeds, too
GuardClearedAfterSuccess == NoPromise

\* the then handler leaves the guard alone
GuardAfterSuccess == connectingPromise

\* .then(() => true): the attempt succeeds
ConnectSucceeds ==
    /\ \E i \in Pending : promises' = [promises EXCEPT ![i] = "fulfilled"]
    /\ connectingPromise' = GuardAfterSuccess
    /\ readyState' = 1
    /\ UNCHANGED <<MONGO_URI, overrides, now, pc, op, args,
                   awaited, newVersion, result, lastWrite, solo>>

\* variant: the catch handler forgets to empty the guard
GuardKeptAfterFailure == connectingPromise

\* connectingPromise = null in the catch handler
GuardAfterFailure == NoPromise

\* .catch((err) => { connectingPromise = null; throw err })
ConnectFails ==
    /\ \E i \in Pending : promises' = [promises EXCEPT ![i] = "rejected"]
    /\ connectingPromise' = GuardAfterFailure
    /\ readyState' = 0
    /\ UNCHANGED <<MONGO_URI, overrides, now, pc, op, args, awaited,
                   newVersion, result, lastWrite, solo>>

\* the driver loses an established connection, and finds it again by itself
Disconnect ==
    /\ readyState = 1
    /\ readyState' = 0
    /\ UNCHANGED <<MONGO_URI, connectingPromise, promises, overrides, now, pc,
                   op, args, awaited, newVersion, result, lastWrite, solo>>

Reconnect ==
    /\ readyState = 0
    /\ \E i \in 1..Len(promises) : promises[i] = "fulfilled"
    /\ readyState' = 1
    /\ UNCHANGED <<MONGO_URI, connectingPromise, promises, overrides, now, pc,
                   op, args, awaited, newVersion, result, lastWrite, solo>>

\* variant: a rejection never reaches the requests that await the promise
WakesOnFulfilment(s) == s = "fulfilled"

\* an awaiting request resumes once the promise is fulfilled or rejected
Wakes(s) == s # "pending"

\* `await ensureDb()` resumes: the helper goes on, or throws the attempt's error
EnsureDbSettles(p) ==
    /\ pc[p] = "ensureDb"
    /\ IF awaited[p] = NoPromise
       THEN /\ pc' = [pc EXCEPT ![p] = FirstQuery(op[p])]
            /\ UNCHANGED result
       ELSE /\ Wakes(promises[awaited[p]])
            /\ IF promises[awaited[p]] = "rejected"
               THEN /\ pc' = [pc EXCEPT ![p] = "done"]
                    /\ result' = [result EXCEPT ![p] = ConnectError(awaited[p])]
               ELSE /\ pc' = [pc EXCEPT ![p] = FirstQuery(op[p])]
                    /\ UNCHANGED result
    /\ UNCHANGED <<MONGO_URI, readyState, connectingPromise, promises,
                   overrides, now, op, args, awaited, newVersion, lastWrite, solo>>

(* ---- getLatestOverride ---- *)
GetLatestFindOne(p) ==
    /\ pc[p] = "findOneActive"
    /\ \E doc \in FindOneSortVersionDesc(overrides, ActiveKeyFilter(args[p])) :
        result' = [result EXCEPT ![p] = doc]
    /\ pc' = [pc EXCEPT ![p] = "done"]
    /\ UNCHANGED <<MONGO_URI, readyState, connectingPromise, promises,
                   overrides, now, op, args, awaited, newVersion, lastWrite>>
    /\ solo' = StillSolo(p)

(* ---- addOverride ---- *)
AddFindOne(p) ==
    /\ pc[p] = "findOne"
    /\ \E latest \in FindOneSortVersionDesc(overrides, KeyFilter(args[p])) :
        newVersion' = [newVersion EXCEPT ![p] = NextVersion(latest)]
    /\ pc' = [pc EXCEPT ![p] = "updateMany"]
    /\ UNCHANGED <<MONGO_URI, readyState, connectingPromise, promises,
                   overrides, now, op, args, awaited, result, lastWrite>>
    /\ solo' = p

AddUpdateMany(p) ==
    /\ pc[p] = "updateMany"
    /\ overrides' = UpdateMany(overrides, KeyFilter(args[p]), Deactivate)
    /\ pc' = [pc EXCEPT ![p] = "save"]
    /\ UNCHANGED <<MONGO_URI, readyState, connectingPromise, promises, now,
                   op, args, awaited, newVersion, result, lastWrite>>
    /\ solo' = StillSolo(p)

\* variant: a unique index on (lat, lon, date, updatedBy, version)
SaveRejectsDuplicate(coll, doc) ==
    \A i \in 1..Len(coll) :
        ~Matches(coll[i], [lat |-> doc.lat, lon |-> doc.lon, date |-> doc.date,
                           updatedBy |-> doc.updatedBy, version |-> doc.version])

\* variant: a unique index on (lat, lon, date, updatedBy) among active records
SaveRejectsSecondActive(coll, doc) ==
    \A i \in 1..Len(coll) :
        ~Matches(coll[i], [lat |-> doc.lat, lon |-> doc.lon, date |-> doc.date,
                           updatedBy |-> doc.updatedBy, active |-> TRUE])

\* overrideSchema declares no unique index: the store takes any document
SaveAccepts(coll, doc) == TRUE

AddSave(p) ==
    /\ pc[p] = "save"
    /\ LET doc == NewOverride(args[p], newVersion[p], Len(overrides) + 1, now)
       IN  IF SaveAccepts(overrides, doc)
           THEN /\ overrides' = Append(overrides, doc)
                /\ result' = [result EXCEPT ![p] = doc]
                /\ now' = now + 1
                /\ lastWrite' = [lastWrite EXCEPT ![KeyOf(p)] = "add"]
           ELSE /\ result' = [result EXCEPT ![p] = ConflictError]
                /\ lastWrite' = [lastWrite EXCEPT ![KeyOf(p)] = FailedAdd(KeyOf(p))]
                /\ UNCHANGED <<overrides, now>>
    /\ pc' = [pc EXCEPT ![p] = "done"]
    /\ solo' = StillSolo(p)
    /\ UNCHANGED <<MONGO_URI, readyState, connectingPromise, promises,
                   op, args, awaited, newVersion>>

\* newOverride.save() rejects (the write fails): addOverride throws
AddSaveFails(p) ==
    /\ pc[p] = "save"
    /\ result' = [result EXCEPT ![p] = SaveError]
    /\ lastWrite' = [lastWrite EXCEPT ![KeyOf(p)] = FailedAdd(KeyOf(p))]
    /\ pc' = [pc EXCEPT ![p] = "done"]
    /\ solo' = StillSolo(p)
    /\ UNCHANGED <<MONGO_URI, readyState, connectingPromise, promises,
                   overrides, now, op, args, awaited, newVersion>>

(* ---- removeOverride ---- *)
RemoveFindOneAndUpdate(p) ==
    /\ pc[p] = "findOneAndUpdate"
    /\ LET m == Matching(overrides, ActiveKeyFilter(args[p]))
       IN  IF m = {}
           THEN /\ result' = [result EXCEPT ![p] = null]
                /\ UNCHANGED overrides
           ELSE \E i \in m :
                /\ overrides' = FindOneAndUpdate(overrides, i, Deactivate)
                /\ result' = [result EXCEPT ![p] = ReturnNew(overrides[i], Deactivate)]
    /\ lastWrite' = [lastWrite EXCEPT ![KeyOf(p)] = "remove"]
    /\ pc' = [pc EXCEPT ![p] = "done"]
    /\ UNCHANGED <<MONGO_URI, readyState, connectingPromise, promises, now,
                   op, args, awaited, newVersion>>
    /\ solo' = StillSolo(p)

\* the route handler answers and the request ends
Respond(p) ==
    /\ pc[p] = "done"
    /\ pc' = [pc EXCEPT ![p] = "idle"]
    /\ op' = [op EXCEPT ![p] = "none"]
    /\ args' = [args EXCEPT ![p] = NoArgs]
    /\ awaited' = [awaited EXCEPT ![p] = NoPromise]
    /\ newVersion' = [newVersion EXCEPT ![p] = 0]
    /\ result' = [result EXCEPT ![p] = null]
    /\ UNCHANGED <<MONGO_URI, readyState, connectingPromise, promises,
                   overrides, now, lastWrite>>
    /\ solo' = IF solo = p THEN "none" ELSE solo

\* what the connection and a request already inside a helper may do
Step ==
    \/ ConnectSucceeds
    \/ ConnectFails
    \/ Disconnect
    \/ Reconnect
    \/ \E p \in Procs : EnsureDbSettles(p)
    \/ \E p \in Procs : GetLatestFindOne(p)
    \/ \E p \in Procs : AddFindOne(p)
    \/ \E p \in Procs : AddUpdateMany(p)
    \/ \E p \in Procs : AddSave(p)
    \/ \E p \in Procs : AddSaveFails(p)
    \/ \E p \in Procs : RemoveFindOneAndUpdate(p)
    \/ \E p \in Procs : Respond(p)

\* requests arrive at any time: the helpers' steps interleave
Next ==
    \/ \E p \in Procs : getLatestOverride(p)
    \/ \E p \in Procs : CanAdd(MaxRecords) /\ addOverride(p)
    \/ \E p \in Procs : removeOverride(p)
    \/ Step

Spec == Init /\ [][Next]_vars

\* a helper is called only once the previous call has returned
NextSeq ==
    \/ \E p \in Procs : Quiet /\ getLatestOverride(p)
    \/ \E p \in Procs : Quiet /\ CanAdd(MaxRecordsSeq) /\ addOverride(p)
    \/ \E p \in Procs : Quiet /\ removeOverride(p)
    \/ Step

SpecSeq == Init /\ [][NextSeq]_vars

\* the connection holds once made: what is left is the interleaving of the
\* helpers' store calls
StepStore ==
    \/ ConnectSucceeds
    \/ \E p \in Procs : EnsureDbSettles(p)
    \/ \E p \in Procs : GetLatestFindOne(p)
    \/ \E p \in Procs : AddFindOne(p)
    \/ \E p \in Procs : AddUpdateMany(p)
    \/ \E p \in Procs : AddSave(p)
    \/ \E p \in Procs : AddSaveFails(p)
    \/ \E p \in Procs : RemoveFindOneAndUpdate(p)
    \/ \E p \in Procs : Respond(p)

NextStore ==
    \/ \E p \in Procs : getLatestOverride(p)
    \/ \E p \in Procs : CanAdd(MaxRecordsStore) /\ addOverride(p)
    \/ \E p \in Procs : removeOverride(p)
    \/ StepStore

SpecStore == Init /\ [][NextStore]_vars

\* another request has an add on key k under way
AddUnderWay(p, k) ==
    \E q \in Procs \ {p} : op[q] = "add" /\ pc[q] # "done" /\ KeyOf(q) = k

\* the adds on one key are called one after the other; removes, getLatests and
\* adds on other keys arrive at any time
NextOneAdd ==
    \/ \E p \in Procs : getLatestOverride(p)
    \/ \E p \in Procs :
         CanAdd(MaxRecords) /\ addOverride(p) /\ ~AddUnderWay(p, KeyOf(p)')
    \/ \E p \in Procs : removeOverride(p)
    \/ Step

SpecOneAdd == Init /\ [][NextOneAdd]_vars

(* ======================= properties ======================= *)

\* the documents of key k, by position in the collection
OfKey(k) == Matching(overrides, k)
ActiveOfKey(k) == {i \in OfKey(k) : overrides[i].active}
Returned(p, o) == pc[p] = "done" /\ op[p] = o /\ ~IsError(result[p])

\* C1: called one after the other, the n-th add on a key stores and returns a
\* record with version n, and when it returns the key has exactly one active
\* record, the one just inserted.
C1_AddAssignsNextVersion ==
    \A p \in Procs : Returned(p, "add") =>
        LET k == KeyOf(p)
            last == Len(overrides)
        IN  /\ last \in OfKey(k)
            /\ result[p] = overrides[last]
            /\ result[p].version = Cardinality(OfKey(k))
            /\ \A i \in OfKey(k) :
                 overrides[i].version = Cardinality({j \in OfKey(k) : j <= i})
            /\ ActiveOfKey(k) = {last}

\* the third add on one key has returned
C1_Witness ==
    \E p \in Procs :
        /\ Returned(p, "add")
        /\ result[p].version = 3
        /\ Cardinality(OfKey(KeyOf(p))) = 3
        /\ \A k \in Keys : lastWrite[k] # "remove"

\* C2: with the helpers called one after the other, the versions stored for a
\* key are exactly 1..N without duplicates, and at most one record is active.
C2_KeyInvariant ==
    \A k \in Keys :
        /\ {overrides[i].version : i \in OfKey(k)} = 1..Cardinality(OfKey(k))
        /\ \A i, j \in OfKey(k) :
             overrides[i].version = overrides[j].version => i = j
        /\ Cardinality(ActiveOfKey(k)) <= 1

\* a key with two versions, the newer one active, while the other key has had
\* its only record removed
C2_Witness ==
    \E k, k2 \in Keys :
        /\ k # k2
        /\ Cardinality(OfKey(k)) = 2
        /\ Cardinality(ActiveOfKey(k)) = 1
        /\ Cardinality(OfKey(k2)) = 1
        /\ ActiveOfKey(k2) = {}
        /\ \E p \in Procs : Returned(p, "getLatest")

\* request p's store call of kind q is answered in this step
Answered(p, q) == pc[p] = q /\ pc'[p] # q

\* C3: called one after the other, remove on a key with an active record
\* deactivates that record and returns it with active = false; a remove that
\* follows a remove on the key with no add in between returns empty; after
\* either, the key has no active record.
C3_RemoveDeactivatesOnce ==
    [][\A p \in Procs : Answered(p, "findOneAndUpdate") =>
        LET k == KeyOf(p)
        IN  /\ ActiveOfKey(k) # {} =>
                \E i \in ActiveOfKey(k) :
                    /\ overrides'[i] = [overrides[i] EXCEPT !.active = FALSE]
                    /\ result'[p] = overrides'[i]
            /\ lastWrite[k] = "remove" => result'[p] = null
            /\ \A i \in Matching(overrides', k) : ~overrides'[i].active
            /\ pc'[p] = "done"]_vars

\* a remove has deactivated the key's record and the remove after it has
\* returned empty
C3_Witness ==
    \E p \in Procs :
        /\ Returned(p, "remove") /\ result[p] = null
        /\ lastWrite[KeyOf(p)] = "remove"
        /\ OfKey(KeyOf(p)) # {}
        /\ ActiveOfKey(KeyOf(p)) = {}

C5_RemovedStaysStored ==
    /\ [](\A p \in Procs :
            Returned(p, "getLatest") /\ lastWrite[KeyOf(p)] = "remove"
                => result[p] = null)
    /\ [][\A p \in Procs : Answered(p, "findOneAndUpdate") =>
            /\ Len(overrides') = Len(overrides)
            /\ result'[p] # null =>
                 \E i \in 1..Len(overrides') :
                    /\ overrides'[i] = result'[p]
                    /\ ~overrides'[i].active]_vars

\* add, add, remove, getLatest on one key: empty, with both versions stored
C5_Witness ==
    \E p \in Procs :
        /\ Returned(p, "getLatest")
        /\ lastWrite[KeyOf(p)] = "remove"
        /\ result[p] = null
        /\ Cardinality(OfKey(KeyOf(p))) = 2
        /\ ActiveOfKey(KeyOf(p)) = {}

\* the highest version among the documents at the positions in m
TopVersion(m) ==
    CHOOSE v \in {overrides[i].version : i \in m} :
        \A i \in m : overrides[i].version <= v

\* request p takes a step of its helper
Moves(p) == pc'[p] # pc[p]

\* C6: under every interleaving, a step of a request on one key leaves the
\* records of every other key as they are (same positions, same fields), and
\* the version an add picks is one more than the top version of its own key
\* (1 when its key has no record), whatever the other keys hold.
C6_KeysIsolated ==
    [][/\ \A k \in Keys :
            \/ overrides' = overrides
            \/ \E p \in Procs : Moves(p) /\ KeyOf(p) = k
            \/ /\ Matching(overrides', k) = OfKey(k)
               /\ \A i \in OfKey(k) : overrides'[i] = overrides[i]
       /\ \A p \in Procs : Answered(p, "findOne") =>
            newVersion'[p] =
                IF OfKey(KeyOf(p)) = {} THEN 1
                ELSE TopVersion(OfKey(KeyOf(p))) + 1]_vars

\* owner B's add has returned version 1 next to owner A's active version 1
\* for the same lat, lon and date
C6_Witness ==
    \E p \in Procs :
        /\ Returned(p, "add")
        /\ result[p].version = 1
        /\ \E i \in 1..Len(overrides) :
            /\ overrides[i].updatedBy # result[p].updatedBy
            /\ overrides[i].lat = result[p].lat
            /\ overrides[i].lon = result[p].lon
            /\ overrides[i].date = result[p].date
            /\ overrides[i].active
            /\ i < result[p]._id

\* C7: under every interleaving, no record leaves the collection, no field of
\* a stored record other than active changes, and an inactive record stays
\* inactive.
C7_RecordsOnlyDeactivate ==
    [][/\ Len(overrides') >= Len(overrides)
       /\ \A i \in 1..Len(overrides) :
            /\ [overrides'[i] EXCEPT !.active = overrides[i].active]
                   = overrides[i]
            /\ ~overrides[i].active => ~overrides'[i].active]_vars

\* a record deactivated by a remove, beside a record inserted later
C7_Witness ==
    /\ Len(overrides) = 2
    /\ ~overrides[1].active
    /\ lastWrite[[k \in {"lat", "lon", "date", "updatedBy"} |-> overrides[1][k]]]
           = "remove"

\* request p is past `await ensureDb()`
Settled(p) == pc[p] \notin {"idle", "ensureDb"}
ConnectFailed(p) == pc[p] = "done" /\ EnsureDbThrew(result[p])
\* request p calls a helper in this step
Calls(p) == pc[p] = "idle" /\ pc'[p] # "idle"

\* C8: at most one connection attempt is pending; a call that finds the store
\* not connected and an attempt pending starts no attempt and awaits that
\* attempt; a settled attempt keeps its outcome, and the callers that awaited
\* it all fail with its error or all go on.
C8_OneSharedAttempt ==
    /\ [](Cardinality(Pending) <= 1)
    /\ [](\A p \in Procs : Settled(p) /\ awaited[p] # NoPromise =>
            IF promises[awaited[p]] = "rejected"
            THEN pc[p] = "done" /\ result[p] = ConnectError(awaited[p])
            ELSE promises[awaited[p]] = "fulfilled" /\ ~ConnectFailed(p))
    /\ [][/\ \A p \in Procs : Calls(p) /\ readyState # 1 /\ Pending # {} =>
                /\ promises' = promises
                /\ awaited'[p] \in Pending
                /\ pc'[p] = "ensureDb"
          /\ \A i \in 1..Len(promises) :
                promises[i] # "pending" => promises'[i] = promises[i]]_vars

\* two requests await the same pending attempt
C8_Witness ==
    \E p, q \in Procs :
        /\ p # q
        /\ pc[p] = "ensureDb" /\ pc[q] = "ensureDb"
        /\ awaited[p] = awaited[q]
        /\ awaited[p] \in Pending

\* C9: when an attempt fails the guard is emptied, every request that awaited
\* the attempt throws its error, and a call made while the last attempt is
\* the failed one starts a new attempt.
C9_FailureClearsGuard ==
    [][/\ \A i \in Pending : promises'[i] = "rejected" =>
                connectingPromise' = NoPromise
       /\ \A p \in Procs :
            /\ pc[p] = "ensureDb"
            /\ awaited[p] # NoPromise
            /\ Moves(p)
            => IF promises[awaited[p]] = "rejected"
               THEN /\ pc'[p] = "done"
                    /\ result'[p] = ConnectError(awaited[p])
                    /\ overrides' = overrides
               ELSE promises[awaited[p]] = "fulfilled"
       /\ \A p \in Procs :
            /\ Calls(p)
            /\ Len(promises) > 0
            /\ promises[Len(promises)] = "rejected"
            => /\ promises' = Append(promises, "pending")
               /\ connectingPromise' = Len(promises')
               /\ awaited'[p] = Len(promises')]_vars

\* a request has thrown the first attempt's error and the guard was emptied;
\* the next call has started the second attempt
C9_WitnessRetry ==
    \E p, q \in Procs :
        /\ result[p] = ConnectError(1)
        /\ pc[q] = "ensureDb" /\ awaited[q] = 2
        /\ promises = <<"rejected", "pending">>

Fulfilled == {i \in 1..Len(promises) : promises[i] = "fulfilled"}

\* C10: no attempt exists before the first call, an attempt starts only in a
\* step in which a helper is called, and once an attempt has succeeded no
\* step starts another one.
C10_ConnectsLazilyOnce ==
    /\ promises = << >>
    /\ connectingPromise = NoPromise
    /\ [][/\ promises' # promises /\ Len(promises') > Len(promises) =>
                \E p \in Procs : Calls(p) /\ awaited'[p] = Len(promises')
          /\ Fulfilled # {} => Len(promises') = Len(promises)]_vars

\* the connection was made and lost, and a later call went on to the store
\* without a second attempt
C10_Witness ==
    \E p \in Procs :
        /\ readyState = 0
        /\ promises = <<"fulfilled">>
        /\ awaited[p] = 1
        /\ pc[p] = "done"
        /\ ~IsError(result[p])
        /\ \E q \in Procs : q # p /\ pc[q] = "ensureDb" /\ awaited[q] = 1

(* ---- fairness: what the event loop and the driver's timeouts guarantee ---- *)
\* connectTimeoutMS / serverSelectionTimeoutMS: a pending attempt ends, and a
\* request whose awaited promise has settled is resumed
Fairness ==
    /\ WF_vars(ConnectSucceeds \/ ConnectFails)
    /\ \A p \in Procs : WF_vars(EnsureDbSettles(p))

\* the requests interleave as in Next, over a collection of at most
\* MaxRecordsConn records
NextConn ==
    \/ \E p \in Procs : getLatestOverride(p)
    \/ \E p \in Procs : CanAdd(MaxRecordsConn) /\ addOverride(p)
    \/ \E p \in Procs : removeOverride(p)
    \/ Step

SpecFair == Init /\ [][NextConn]_vars /\ Fairness

\* C11: given that every pending attempt ends, each request suspended in
\* `await ensureDb()` is resumed, with success or with the attempt's error,
\* also when it joined an attempt that failed.
C11_EnsureDbCompletes ==
    \A p \in Procs : (pc[p] = "ensureDb") ~> (pc[p] # "ensureDb")

\* a request that joined the attempt another request started has been resumed
\* with that attempt's error
C11_Witness ==
    \E p, q \in Procs :
        /\ p # q
        /\ awaited[p] = 1 /\ awaited[q] = 1
        /\ promises[1] = "rejected"
        /\ pc[p] = "done" /\ result[p] = ConnectError(1)
        /\ pc[q] = "done" /\ result[q] = ConnectError(1)

\* C12: no step of a getLatest changes the collection, and a remove that finds
\* no active record of its key returns empty, throws nothing and leaves the
\* collection as it is.
C12_NoEffectWithoutActiveRecord ==
    [][\A p \in Procs :
        /\ (op[p] = "getLatest" \/ op'[p] = "getLatest") /\ Moves(p)
            => overrides' = overrides
        /\ Answered(p, "findOneAndUpdate") /\ ActiveOfKey(KeyOf(p)) = {}
            => /\ result'[p] = null
               /\ pc'[p] = "done"
               /\ overrides' = overrides]_vars

\* a remove has returned empty on a key whose record is inactive, next to a
\* getLatest that has returned
C12_Witness ==
    \E p, q \in Procs :
        /\ Returned(p, "remove") /\ result[p] = null
        /\ OfKey(KeyOf(p)) # {}
        /\ Returned(q, "getLatest")
        /\ KeyOf(q) = KeyOf(p)
        /\ Len(overrides) = 2

\* the positions of the key's records that carry version v
WithVersion(k, v) == {i \in OfKey(k) : overrides[i].version = v}

\* C13: an add that reaches its insert with a version the key already holds
\* is not refused for it: unless the write itself fails, the record is stored
\* under the duplicate version and returned.  Two interleaved adds on one key
\* both return, with the same version.
C13_DuplicateVersionNotDetected ==
    [][\A p \in Procs :
        Answered(p, "save") /\ WithVersion(KeyOf(p), newVersion[p]) # {}
            => /\ result'[p] # ConflictError
               /\ result'[p] # SaveError =>
                    /\ result'[p].version = newVersion[p]
                    /\ overrides' = Append(overrides, result'[p])
                    /\ Cardinality({i \in Matching(overrides', KeyOf(p)) :
                           overrides'[i].version = newVersion[p]}) >= 2]_vars

\* both adds have returned, and the key holds two records with version 1
C13_Witness ==
    \E p, q \in Procs :
        /\ p # q
        /\ Returned(p, "add") /\ Returned(q, "add")
        /\ KeyOf(p) = KeyOf(q)
        /\ result[p].version = result[q].version
        /\ result[p]._id # result[q]._id
        /\ Cardinality(WithVersion(KeyOf(p), result[p].version)) = 2

\* C14: an add that reaches its insert while its key has an active record is
\* not refused for it: unless the write itself fails, the key has one active
\* record more.  Two interleaved adds on one key both return and leave two
\* active records.
C14_SecondActiveNotDetected ==
    [][\A p \in Procs :
        Answered(p, "save") /\ ActiveOfKey(KeyOf(p)) # {}
            => /\ result'[p] # ConflictError
               /\ result'[p] # SaveError =>
                    {i \in Matching(overrides', KeyOf(p)) : overrides'[i].active}
                        = ActiveOfKey(KeyOf(p)) \cup {Len(overrides) + 1}]_vars

\* both adds have returned and answered, and the key has two active records
C14_Witness ==
    /\ \A p \in Procs : pc[p] = "idle"
    /\ \E k \in Keys : Cardinality(ActiveOfKey(k)) = 2

\* C15: whatever the key held when it started, several active records
\* included, an add whose store calls ran with no other store call in between
\* returns the record it inserted, that record is the key's only active one,
\* and its version is one more than the highest version the key held.
C15_AddRepairsKey ==
    \A p \in Procs : Returned(p, "add") /\ solo = p =>
        LET k == KeyOf(p)
            last == Len(overrides)
            before == OfKey(k) \ {last}
        IN  /\ last \in OfKey(k)
            /\ result[p] = overrides[last]
            /\ ActiveOfKey(k) = {last}
            /\ result[p].version =
                 IF before = {} THEN 1 ELSE TopVersion(before) + 1

\* an add has read its key, alone so far, while the key has two active records
C15_Witness ==
    \E p \in Procs :
        /\ pc[p] = "updateMany" /\ solo = p
        /\ Cardinality(ActiveOfKey(KeyOf(p))) >= 2

\* C16: called one after the other, an add takes as its version the highest
\* version stored for its key, whether that record is active or not, plus 1:
\* no record of the key carries that version yet, and on a key that has
\* records, removed or not, the version is above 1.
C16_VersionsCountInactive ==
    [][\A p \in Procs : Answered(p, "findOne") =>
        LET k == KeyOf(p)
        IN  /\ WithVersion(k, newVersion'[p]) = {}
            /\ OfKey(k) # {} =>
                 /\ newVersion'[p] = TopVersion(OfKey(k)) + 1
                 /\ newVersion'[p] > 1]_vars

\* an add has read version 2 on a key whose only record was removed
C16_Witness ==
    \E p \in Procs :
        /\ op[p] = "add" /\ pc[p] = "updateMany"
        /\ lastWrite[KeyOf(p)] = "remove"
        /\ Cardinality(OfKey(KeyOf(p))) = 1
        /\ ActiveOfKey(KeyOf(p)) = {}
        /\ newVersion[p] = 2

\* C17: under every interleaving, the find and the patch of a remove are one
\* step: on a key with exactly one active record it returns that record and
\* the key has no active record right after it, so that of two removes in
\* flight together no two return the same record.
C17_RemoveIsAtomic ==
    /\ [](\A p, q \in Procs :
            /\ p # q
            /\ Returned(p, "remove") /\ Returned(q, "remove")
            /\ result[p] # null /\ result[q] # null
            => result[p]._id # result[q]._id)
    /\ [][\A p \in Procs :
            Answered(p, "findOneAndUpdate")
            /\ Cardinality(ActiveOfKey(KeyOf(p))) = 1
            => /\ ~IsError(result'[p]) /\ result'[p] # null
               /\ ActiveOfKey(KeyOf(p)) = {result'[p]._id}
               /\ ~result'[p].active
               /\ \A i \in Matching(overrides', KeyOf(p)) :
                    ~overrides'[i].active]_vars

\* two removes on the key's single record are in flight together: one has
\* returned the record, the other empty, and the key has no active record
C17_Witness ==
    \E p, q \in Procs :
        /\ p # q
        /\ Returned(p, "remove") /\ Returned(q, "remove")
        /\ KeyOf(p) = KeyOf(q)
        /\ result[p] # null /\ result[q] = null
        /\ OfKey(KeyOf(p)) = {result[p]._id}
        /\ ActiveOfKey(KeyOf(p)) = {}

\* C18: when the adds on a key are called one after the other, removes and
\* getLatests interleaving with an add's steps keep the key well-formed: in
\* every state its versions are 1..N, each carried by one record, and at most
\* one record is active; the version an add holds stays the key's next one,
\* and the key has no active record between the add's updateMany and its save.
C18_KeyInvariantUnderOneAdd ==
    /\ \A k \in Keys :
        /\ \A v \in 1..Cardinality(OfKey(k)) : Cardinality(WithVersion(k, v)) = 1
        /\ \A i \in OfKey(k) : overrides[i].version \in 1..Cardinality(OfKey(k))
        /\ \A i, j \in ActiveOfKey(k) : i = j
    /\ \A p \in Procs : op[p] = "add" =>
        /\ pc[p] \in {"updateMany", "save"} =>
             newVersion[p] = Cardinality(OfKey(KeyOf(p))) + 1
        /\ pc[p] = "save" => ActiveOfKey(KeyOf(p)) = {}

\* a remove has deactivated the key's record between the find and the save of
\* an add on that key, and both have returned
C18_Witness ==
    \E p, q \in Procs :
        /\ Returned(p, "add") /\ Returned(q, "remove")
        /\ KeyOf(p) = KeyOf(q)
        /\ solo = "none"
        /\ result[q] # null
        /\ result[q]._id < result[p]._id

\* C19: called one after the other, an add whose save() throws ends with that
\* error as its outcome and stores nothing, and the deactivation its
\* updateMany made is not undone: the key has no active record and no record
\* with the version the add had picked.
C19_FailedAddLeavesNoActive ==
    /\ [][\A p \in Procs : Answered(p, "save") /\ IsError(result'[p]) =>
            /\ overrides' = overrides
            /\ pc'[p] = "done"
            /\ result'[p] = SaveError]_vars
    /\ [](\A p \in Procs : pc[p] = "done" /\ result[p] = SaveError =>
            /\ op[p] = "add"
            /\ ActiveOfKey(KeyOf(p)) = {}
            /\ WithVersion(KeyOf(p), newVersion[p]) = {})

\* an add on a key whose record was active has failed at its save: the record
\* is inactive and version 2 is not stored
C19_Witness ==
    \E p \in Procs :
        /\ pc[p] = "done" /\ result[p] = SaveError
        /\ lastWrite[KeyOf(p)] = "failed add after add"
        /\ newVersion[p] = 2
        /\ Cardinality(OfKey(KeyOf(p))) = 1
        /\ \A i \in OfKey(KeyOf(p)) : ~overrides[i].active

\* the positions of a helper at which its next step is a store call
StoreCalls == {"findOneActive", "findOne", "updateMany", "save", "findOneAndUpdate"}

\* C20: under every interleaving, a request is at a store call only when its
\* own ensureDb call succeeded: MONGO_URI is set and either the call found the
\* connection ready, or the attempt it awaited is fulfilled.  A request does
\* not touch the collection before its ensureDb call settles, and one whose
\* ensureDb call throws ends right there, with the collection as it was, and
\* goes on to nothing but the response.
C20_StoreCallsFollowEnsureDb ==
    /\ [](\A p \in Procs : pc[p] \in StoreCalls =>
            /\ MONGO_URI
            /\ IF awaited[p] = NoPromise THEN Fulfilled # {}
               ELSE promises[awaited[p]] = "fulfilled")
    /\ [][\A p \in Procs :
            /\ pc[p] \in {"idle", "ensureDb"} /\ Moves(p) =>
                 /\ overrides' = overrides
                 /\ pc'[p] \in StoreCalls \cup {"ensureDb", "done"}
                 /\ pc'[p] = "done" => EnsureDbThrew(result'[p])
            /\ pc'[p] = "done" /\ EnsureDbThrew(result'[p]) /\ Moves(p) =>
                 pc[p] \in {"idle", "ensureDb"}
            /\ pc[p] = "done" /\ Moves(p) =>
                 pc'[p] = "idle" /\ overrides' = overrides]_vars

\* a request that awaited the failed first attempt has ended with its error
\* and stored nothing, while one that awaited the second attempt has inserted
\* the collection's only record
C20_Witness ==
    \E p, q \in Procs :
        /\ pc[q] = "done" /\ op[q] = "add" /\ result[q] = ConnectError(1)
        /\ Returned(p, "add") /\ awaited[p] = 2
        /\ promises = <<"rejected", "fulfilled">>
        /\ Len(overrides) = 1

====
